---- MODULE Spec2Model ----
(***************************************************************************)
(* Model of main() of the ray tracer (src/main.cpp): start-up, the sphere  *)
(* generator reset_spheres, reset_rendering and the render loop with its   *)
(* input handling, kernel hot reload, compute dispatch and UI sliders.     *)
(*                                                                         *)
(* Numbers are fixed point.  Scene lengths are in half world units (0.5),  *)
(* angles in milliradians, the camera radius and the slider values in      *)
(* tenths.  The kernel source file is the environment: it can be rewritten *)
(* before each read of it, also between the write-time query and the       *)
(* compilation of one frame.                                               *)
(***************************************************************************)
EXTENDS Integers, Sequences, FiniteSets, TLC

---------------------------------------------------------------------------
\* Bounds of the model.

\* Frames the render loop may start: in the runs with the full set of
\* inputs, and in the runs that follow one part of the program for longer.
MaxFrames == 2
LongFrames == 3
\* Times the kernel source file is rewritten while the program runs.
MaxEdits == 2
\* #define SPHERES_COUNT 75, scaled down: the ground sphere plus two others.
SPHERES_COUNT == 3
\* Largest render target side and tile side of the dispatch-grid check.
MaxTarget == 6
MaxTile == 3
\* Passes of the placement loop counted for one sphere; the count stops here.
MaxAttempts == 3
\* Unit draws of a random source given in advance.
MaxTape == 12

---------------------------------------------------------------------------
\* Program constants.

GROUP_SIZE_X == 32
GROUP_SIZE_Y == 32
WINDOW_WIDTH == 1280
WINDOW_HEIGHT == 960
\* const float SPHERES_CIRCLE_RADIUS = 15.0f, in half units.
SPHERES_CIRCLE_RADIUS == 30
\* The disk of positions is recentred by x - 6, in half units.
CIRCLE_OFFSET_X == 12
\* const float MOUSE_SPEED = 0.003f: milliradians per pixel.
MOUSE_SPEED == 3
\* math::PI and the lower clamp 0.02f, in milliradians.
PI == 3142
POLAR_MIN == 20
\* math::PIHALF * 0.5f
POLAR_INIT == 785
\* float radius = 10.0f, in tenths.
RADIUS_INIT == 100

\* Material index_to_mat[]: the random index 0..6 to the material.
index_to_mat ==
    <<"LAMBERT", "LAMBERT", "LAMBERT_CHECKERBOARD", "LAMBERT_CHECKERBOARD",
      "METAL", "DIELECTRIC", "LIGHT">>

\* The six sliders: the Config field and its range (tenths).
Sliders ==
    {"ambient_light_intensity", "sphere_lights_intensity", "metal_roughness",
     "refractive_index", "dof_radius", "dof_focal_plane"}

SliderMin ==
    [ambient_light_intensity |-> 0, sphere_lights_intensity |-> 0,
     metal_roughness |-> 0, refractive_index |-> 5, dof_radius |-> 0,
     dof_focal_plane |-> 0]

SliderMax ==
    [ambient_light_intensity |-> 200, sphere_lights_intensity |-> 200,
     metal_roughness |-> 10, refractive_index |-> 20, dof_radius |-> 2,
     dof_focal_plane |-> 200]

---------------------------------------------------------------------------
\* State.

VARIABLES
    pc,                \* position of the control thread in main()
    render_target_width, render_target_height,  \* size of render_texture
    group_size_x, group_size_y,                 \* tile size of the kernel
    azimuth, polar, radius,                     \* camera
    config,            \* struct Config
    spheres,           \* SpheresBuffer spheres: positions[], materials[]
    spheres_buffer,    \* the constant buffer of the scene: "empty", "stale"
                       \* (spheres was written since the last upload) or
                       \* "current" (it holds the contents of spheres)
    render_texture,    \* what was accumulated into the output texture: what
                       \* it held before, the samples added, and the inputs
                       \* the passes that added them read
    is_running, show_ui,
    is_registering_input,  \* what ui::is_registering_input() returned to the
                       \* if guarding the input handling of this frame
    ray_trace_shader,  \* handle of the active kernel (0: not ready)
    shaders_created,   \* kernels compiled so far: the newest handle
    released,          \* handles given to graphics::release
    last_compile,      \* the latest compilation of the kernel source: the
                       \* write time of the source it read, and its outcome
    stored_file_time,  \* FILETIME stored_file_time
    current_file_time, \* FILETIME current_file_time of the frame
    file_time, file_valid,  \* the kernel source file: write time, compiles?
    edits,             \* rewrites of the kernel source so far
    gen_i, sphere_size, gen_ret,  \* reset_spheres: i, sphere_size, return to
    attempts,          \* passes of the do-while loop for sphere i so far
    dispatch_grid,     \* arguments of the last graphics::run_compute
    frames,            \* frames started
    phases,            \* blocks of the loop body run in this frame, in order
    resets,            \* call sites of reset_rendering run in this frame
    compiled,          \* the frame's reload check compiled the source
    tape               \* the unit draws math::random_uniform has yet to
                       \* return, where the random source is given in advance

vars ==
    <<pc, render_target_width, render_target_height, group_size_x, group_size_y,
      azimuth, polar, radius, config, spheres, spheres_buffer, render_texture,
      is_running, show_ui, ray_trace_shader, shaders_created, released,
      last_compile, stored_file_time, current_file_time, file_time, file_valid, edits,
      gen_i, sphere_size, gen_ret, attempts, dispatch_grid, frames, phases,
      resets, compiled, is_registering_input, tape>>

\* Groups of variables, for UNCHANGED.
sizeVars == <<render_target_width, render_target_height, group_size_x, group_size_y>>
cameraVars == <<azimuth, polar, radius>>
sceneVars == <<spheres, spheres_buffer>>
genVars == <<gen_i, sphere_size, gen_ret, attempts>>
kernelVars == <<ray_trace_shader, shaders_created, released, last_compile>>
fileVars == <<file_time, file_valid, edits>>
inputVars == <<is_registering_input>>
randomVars == <<tape>>

---------------------------------------------------------------------------
\* Helpers.

Abs(x) == IF x < 0 THEN -x ELSE x

\* math::clamp
Clamp(x, lo, hi) == IF x < lo THEN lo ELSE IF x > hi THEN hi ELSE x

\* math::sin and math::cos at the quarter turns 0, pi/2, pi, 3pi/2 (q = 0..3).
Sin(q) == <<0, 1, 0, -1>>[q + 1]
Cos(q) == <<1, 0, -1, 0>>[q + 1]

Vector4(x, y, z, w) == [x |-> x, y |-> y, z |-> z, w |-> w]

\* Vector4(color, float(mat))
MaterialOf(color, mat) == [color |-> color, mat |-> mat]

\* Timestamps a file can carry; 0 is a value no file carries.
FileTimes == 1..2

---------------------------------------------------------------------------
\* Values of the scene.

\* The ground sphere and the "sun" sphere main() writes before the first
\* generation (half units; colours in hundredths).
GroundPosition == Vector4(0, -2000, 0, 2000)
GroundMaterial == MaterialOf([r |-> 15, g |-> 15, b |-> 15], "LAMBERT")
SunPosition == Vector4(20, 20, 0, 4)
SunMaterial == MaterialOf([r |-> 80000, g |-> 80000, b |-> 80000], "LIGHT")

\* SpheresBuffer spheres is declared without an initialiser: slots 2.. hold
\* whatever the stack held.
UninitSlots ==
    {[position |-> Vector4(0, 0, 0, 0),
      material |-> MaterialOf([r |-> 0, g |-> 0, b |-> 0], "LAMBERT")],
     [position |-> Vector4(-12, 2, 0, 2),
      material |-> MaterialOf([r |-> 90, g |-> 90, b |-> 90], "METAL")]}

\* colors::hsv_to_rgb(h, s, v) * k, kept as the term it is (s, k in tenths).
HsvScaled(h, s, v, k) == [h |-> h, s |-> s, v |-> v, k |-> k]

\* The colour reset_spheres gives a sphere of material mat, from the two
\* hues it may draw.
SphereColor(mat, hue_lambert, hue_light) ==
    CASE mat \in {"LAMBERT", "LAMBERT_CHECKERBOARD"} ->
             HsvScaled(hue_lambert, 9, 1, 2)
      [] mat = "LIGHT" -> HsvScaled(hue_light, 2, 1, 5000)
      [] OTHER -> [r |-> 90, g |-> 90, b |-> 90]

\* What math::random_uniform returns during one generation, as sets of draws:
\* sizes in [0.5, 1.0], angles in [0, 2 pi) as quarter turns, the unit draw
\* of the radial distance in tenths, material indices in 0..6, hues.
\* The draws that follow the generator closely: both extreme sizes, all four
\* directions, the centre of the circle and a ring around it.
SceneDraws ==
    [sizes |-> {1, 2}, angles |-> 0..3, radial |-> {0, 1},
     mat_idx |-> {0}, hues_lambert |-> {270}, hues_light |-> {40}]

\* The draws of the runs that follow the frames: three positions far apart.
FrameDraws ==
    [sizes |-> {2}, angles |-> {0, 1}, radial |-> {0, 2},
     mat_idx |-> {0}, hues_lambert |-> {270}, hues_light |-> {40}]

\* The outer loop started at the ground sphere's slot.
LoopRangeFromZero == 0..(SPHERES_COUNT - 1)

\* for(int i = 1; i < SPHERES_COUNT; ++i): the slots reset_spheres writes.
LoopRange == 1..(SPHERES_COUNT - 1)

FirstOf(S) == CHOOSE m \in S : \A n \in S : m <= n

\* The collision test of reset_spheres: the planar distance between the
\* candidate (x, z) and the placed sphere is below the sum of the radii.
Collides(other_sphere, x, z, size) ==
    (other_sphere.x - x) * (other_sphere.x - x)
      + (other_sphere.z - z) * (other_sphere.z - z)
        < (other_sphere.w + size) * (other_sphere.w + size)

\* The inner for loop started at j = 2, as the comment on the "sun" sphere
\* proposes for the outer one: the sphere in slot 1 is never tested.
CollisionFromSecond(positions, i, x, z, size) ==
    \E j \in 2..(i - 1) : Collides(positions[j], x, z, size)

\* The inner for loop run over every slot but i and the ground: the slots
\* after i still hold what the buffer held before the call.
CollisionWithAnySlot(positions, i, x, z, size) ==
    \E j \in (1..(SPHERES_COUNT - 1)) \ {i} : Collides(positions[j], x, z, size)

\* The inner for loop: the candidate collides with a sphere placed before i.
Collision(positions, i, x, z, size) ==
    \E j \in 1..(i - 1) : Collides(positions[j], x, z, size)

---------------------------------------------------------------------------
\* Values of the render state.

\* The spherical camera position, kept as the triple it is computed from.
CameraPos(az, pol, rad) == [azimuth |-> az, polar |-> pol, radius |-> rad]

ConfigInit(w, h) ==
    [camera_pos |-> CameraPos(0, 0, 0), step |-> 0,
     render_target_width |-> w, render_target_height |-> h,
     ambient_light_intensity |-> 150, sphere_lights_intensity |-> 10,
     metal_roughness |-> 0, refractive_index |-> 15, dof_radius |-> 0,
     dof_focal_plane |-> 80]

\* graphics::clear_texture(&render_texture, 0, 0, 0, 0)
ClearedTexture == [base |-> "zero", samples |-> 0, inputs |-> {}]

\* reset_rendering leaving the step at 0, the value Config starts with.
ResetStepZero(c) == [c EXCEPT !.step = 0]

\* config.step = 1 of reset_rendering
ResetStep(c) == [c EXCEPT !.step = 1]

\* graphics::run_compute(width / GROUP_SIZE_X, height / GROUP_SIZE_Y, 1)
DispatchGrid(w, h, gx, gy) == <<w \div gx, h \div gy, 1>>

---------------------------------------------------------------------------
\* Start-up.

\* SpheresBuffer spheres after lines 131-139: the ground sphere, the "sun"
\* sphere, and u in every slot that was not written.
InitialSpheres(u) ==
    [positions |->
       [i \in 0..(SPHERES_COUNT - 1) |->
          IF i = 0 THEN GroundPosition
          ELSE IF i = 1 THEN SunPosition ELSE u.position],
     materials |->
       [i \in 0..(SPHERES_COUNT - 1) |->
          IF i = 0 THEN GroundMaterial
          ELSE IF i = 1 THEN SunMaterial ELSE u.material]]

\* The locals of main() as their declarations leave them.  stored_file_time
\* and the spheres from slot 2 on are not initialised, and the texture is
\* created without data.
Locals ==
    /\ azimuth = 0
    /\ polar = POLAR_INIT
    /\ radius = RADIUS_INIT
    /\ config = ConfigInit(render_target_width, render_target_height)
    /\ \E u \in UninitSlots : spheres = InitialSpheres(u)
    /\ spheres_buffer = "empty"
    /\ render_texture \in {[base |-> "zero", samples |-> 0, inputs |-> {}],
                           [base |-> "undefined", samples |-> 0, inputs |-> {}]}
    /\ is_running = TRUE
    /\ show_ui = TRUE
    /\ is_registering_input = FALSE
    /\ stored_file_time \in {0} \cup FileTimes
    /\ current_file_time = 0
    /\ gen_i = 0
    /\ sphere_size = 0
    /\ gen_ret = "none"
    /\ attempts = 0
    /\ dispatch_grid = <<0, 0, 0>>
    /\ frames = 0
    /\ phases = <<>>
    /\ resets = {}
    /\ compiled = FALSE
    /\ tape = <<>>

Init ==
    /\ pc = "start"
    /\ render_target_width = WINDOW_WIDTH \div 2
    /\ render_target_height = WINDOW_HEIGHT \div 2
    /\ group_size_x = GROUP_SIZE_X
    /\ group_size_y = GROUP_SIZE_Y
    /\ ray_trace_shader = 0
    /\ shaders_created = 0
    /\ released = {}
    /\ last_compile = [source_time |-> 0, ready |-> FALSE]
    /\ file_time = 1
    /\ file_valid \in BOOLEAN
    /\ edits = 0
    /\ Locals

\* Lines 58-67 and 213-214: compile the kernel, assert it is ready, and call
\* reset_spheres for the first time.
Startup ==
    /\ pc = "start"
    /\ last_compile' = [source_time |-> file_time, ready |-> file_valid]
    /\ IF file_valid
       THEN /\ ray_trace_shader' = shaders_created + 1
            /\ shaders_created' = shaders_created + 1
            /\ pc' = "gen_for"
            /\ gen_i' = FirstOf(LoopRange)
            /\ gen_ret' = "loop"
       ELSE /\ pc' = "aborted"
            /\ UNCHANGED <<ray_trace_shader, shaders_created, gen_i, gen_ret>>
    /\ UNCHANGED <<sizeVars, randomVars, inputVars, cameraVars, config, sceneVars, render_texture,
                   is_running, show_ui, released, stored_file_time,
                   current_file_time, fileVars, sphere_size, attempts,
                   dispatch_grid, frames, phases, resets, compiled>>

---------------------------------------------------------------------------
\* reset_spheres (lines 142-205), one step per pass of its loops.  D names
\* the draws math::random_uniform may return.

\* Head of the outer for loop with i < SPHERES_COUNT: draw the sphere's size.
GenNextSphere(D) ==
    /\ pc = "gen_for"
    /\ gen_i < SPHERES_COUNT
    /\ \E size \in D.sizes : sphere_size' = size
    /\ attempts' = 0
    /\ pc' = "gen_do"
    /\ UNCHANGED <<sizeVars, randomVars, inputVars, cameraVars, config, sceneVars, render_texture,
                   is_running, show_ui, kernelVars, stored_file_time,
                   current_file_time, fileVars, gen_i, gen_ret, dispatch_grid,
                   frames, phases, resets, compiled>>

\* One pass of the do-while loop: draw a position in the circle and test it
\* against the spheres placed before.  On a collision the loop repeats; else
\* the position, the material and the colour are written and i advances.
GenPlace(D) ==
    /\ pc = "gen_do"
    /\ \E a \in D.angles, u \in D.radial, m \in D.mat_idx,
          hue_lambert \in D.hues_lambert, hue_light \in D.hues_light :
         LET r == (u * SPHERES_CIRCLE_RADIUS) \div 10
             x == Sin(a) * r - CIRCLE_OFFSET_X
             z == Cos(a) * r
             mat == index_to_mat[m + 1]
         IN  IF Collision(spheres.positions, gen_i, x, z, sphere_size)
             THEN /\ attempts' = IF attempts > MaxAttempts
                                 THEN attempts ELSE attempts + 1
                  /\ UNCHANGED <<pc, spheres, spheres_buffer, gen_i,
                                 sphere_size>>
             ELSE /\ spheres' =
                       [positions |->
                          [spheres.positions EXCEPT
                             ![gen_i] = Vector4(x, sphere_size, z, sphere_size)],
                        materials |->
                          [spheres.materials EXCEPT
                             ![gen_i] =
                                MaterialOf(SphereColor(mat, hue_lambert, hue_light),
                                           mat)]]
                  /\ spheres_buffer' =
                       IF spheres_buffer = "empty" THEN "empty" ELSE "stale"
                  /\ gen_i' = gen_i + 1
                  /\ sphere_size' = 0
                  /\ attempts' = 0
                  /\ pc' = "gen_for"
    /\ UNCHANGED <<sizeVars, randomVars, inputVars, cameraVars, config, render_texture,
                   is_running, show_ui, kernelVars, stored_file_time,
                   current_file_time, fileVars, gen_ret, dispatch_grid,
                   frames, phases, resets, compiled>>

\* Exit of the outer loop: graphics::update_constant_buffer(&spheres_buffer,
\* &spheres), and return to the caller.
GenFinish ==
    /\ pc = "gen_for"
    /\ gen_i >= SPHERES_COUNT
    /\ spheres_buffer' = "current"
    /\ pc' = gen_ret
    /\ gen_i' = 0
    /\ gen_ret' = "none"
    /\ UNCHANGED <<sizeVars, randomVars, inputVars, cameraVars, config, spheres, render_texture,
                   is_running, show_ui, kernelVars, stored_file_time,
                   current_file_time, fileVars, sphere_size, attempts,
                   dispatch_grid, frames, phases, resets, compiled>>

---------------------------------------------------------------------------
\* reset_spheres as a function of the buffer it is given and of the unit
\* draws (tenths of [0, 1)) its random source returns, in the order of its
\* calls of math::random_uniform.

\* The values a unit draw may take.
UnitDraws == {0, 6}

\* math::random_uniform(lo, hi) of each call site, in the units of the model:
\* the size to the nearest half unit, the angle in quarter turns, the radial
\* distance, the index into index_to_mat, the two hues.
SizeOf(u) == IF u < 5 THEN 1 ELSE 2
AngleOf(u) == (u * 4) \div 10
RadialOf(u) == (u * SPHERES_CIRCLE_RADIUS) \div 10
MatIndexOf(u) == (u * Len(index_to_mat)) \div 10
HueLambertOf(u) == 180 + u * 18
HueLightOf(u) == u * 36

Drop(t, n) == SubSeq(t, n + 1, Len(t))

\* The do-while loop for sphere i: draw an angle and a radial distance until
\* the position collides with no sphere placed before.  found is FALSE when
\* the draws end first.
RECURSIVE PlaceSphere(_, _, _, _)
PlaceSphere(positions, i, size, t) ==
    IF Len(t) < 2
    THEN [found |-> FALSE, x |-> 0, z |-> 0, rest |-> <<>>]
    ELSE LET a == AngleOf(t[1])
             r == RadialOf(t[2])
             x == Sin(a) * r - CIRCLE_OFFSET_X
             z == Cos(a) * r
         IN  IF Collision(positions, i, x, z, size)
             THEN PlaceSphere(positions, i, size, Drop(t, 2))
             ELSE [found |-> TRUE, x |-> x, z |-> z, rest |-> Drop(t, 2)]

\* The material and the colour of a sphere: the index draw, and a hue draw
\* for the materials whose case of the switch draws one.
SphereMaterial(t) ==
    LET mat == index_to_mat[MatIndexOf(t[1]) + 1]
        draws_hue == mat \in {"LAMBERT", "LAMBERT_CHECKERBOARD", "LIGHT"}
    IN  IF draws_hue /\ Len(t) < 2
        THEN [found |-> FALSE, material |-> GroundMaterial, rest |-> <<>>]
        ELSE [found |-> TRUE,
              material |->
                MaterialOf(SphereColor(mat,
                                       IF draws_hue THEN HueLambertOf(t[2]) ELSE 0,
                                       IF draws_hue THEN HueLightOf(t[2]) ELSE 0),
                           mat),
              rest |-> IF draws_hue THEN Drop(t, 2) ELSE Drop(t, 1)]

\* The for loop from sphere i on.  done is FALSE when the draws end before
\* the loop does.
RECURSIVE ForSpheres(_, _, _)
ForSpheres(s, i, t) ==
    IF i >= SPHERES_COUNT
    THEN [done |-> TRUE, scene |-> s, rest |-> t]
    ELSE IF t = <<>>
    THEN [done |-> FALSE, scene |-> s, rest |-> t]
    ELSE LET size == SizeOf(t[1])
             p == PlaceSphere(s.positions, i, size, Drop(t, 1))
         IN  IF ~p.found \/ p.rest = <<>>
             THEN [done |-> FALSE, scene |-> s, rest |-> <<>>]
             ELSE LET m == SphereMaterial(p.rest)
                  IN  IF ~m.found
                      THEN [done |-> FALSE, scene |-> s, rest |-> <<>>]
                      ELSE ForSpheres(
                             [positions |->
                                [s.positions EXCEPT
                                   ![i] = Vector4(p.x, size, p.z, size)],
                              materials |->
                                [s.materials EXCEPT ![i] = m.material]],
                             i + 1, m.rest)

reset_spheres(s, t) == ForSpheres(s, FirstOf(LoopRange), t)

\* The random sources given in advance, and those of them that repeat their
\* first two draws.
Tapes == [1..MaxTape -> UnitDraws]
SeedTapes == {t \in Tapes : \A k \in 3..MaxTape : t[k] = t[k - 2]}

\* What the buffer may hold when reset_spheres is called: what start-up left
\* in it, or the scene of an earlier call.
PriorScenes ==
    {InitialSpheres(u) : u \in UninitSlots}
      \cup UNION {{reset_spheres(InitialSpheres(u), t).scene :
                      t \in {q \in SeedTapes :
                               reset_spheres(InitialSpheres(u), q).done}} :
                   u \in UninitSlots}

\* One call of reset_spheres on a buffer with any of these contents, with
\* the random source given in advance.
TapeInit ==
    /\ pc = "gen_for"
    /\ render_target_width = WINDOW_WIDTH \div 2
    /\ render_target_height = WINDOW_HEIGHT \div 2
    /\ group_size_x = GROUP_SIZE_X
    /\ group_size_y = GROUP_SIZE_Y
    /\ azimuth = 0
    /\ polar = POLAR_INIT
    /\ radius = RADIUS_INIT
    /\ config = ConfigInit(render_target_width, render_target_height)
    /\ spheres \in PriorScenes
    /\ spheres_buffer \in {"empty", "current"}
    /\ render_texture = ClearedTexture
    /\ is_running = TRUE
    /\ show_ui = TRUE
    /\ is_registering_input = FALSE
    /\ ray_trace_shader = 1
    /\ shaders_created = 1
    /\ released = {}
    /\ last_compile = [source_time |-> 1, ready |-> TRUE]
    /\ stored_file_time = 0
    /\ current_file_time = 0
    /\ file_time = 1
    /\ file_valid = TRUE
    /\ edits = 0
    /\ gen_i = FirstOf(LoopRange)
    /\ sphere_size = 0
    /\ gen_ret = "loop"
    /\ attempts = 0
    /\ dispatch_grid = <<0, 0, 0>>
    /\ frames = 0
    /\ phases = <<>>
    /\ resets = {}
    /\ compiled = FALSE
    /\ tape \in Tapes

\* The whole call: the loops run on the draws of the tape, and the buffer is
\* uploaded.
RunResetSpheres ==
    /\ pc = "gen_for"
    /\ gen_i = FirstOf(LoopRange)
    /\ LET run == reset_spheres(spheres, tape)
       IN  /\ run.done
           /\ spheres' = run.scene
           /\ tape' = run.rest
    /\ spheres_buffer' = "current"
    /\ pc' = gen_ret
    /\ gen_i' = 0
    /\ gen_ret' = "none"
    /\ UNCHANGED <<sizeVars, inputVars, cameraVars, config, render_texture,
                   is_running, show_ui, kernelVars, stored_file_time,
                   current_file_time, fileVars, sphere_size, attempts,
                   dispatch_grid, frames, phases, resets, compiled>>

TapeNext == RunResetSpheres

TapeSpec == TapeInit /\ [][TapeNext]_vars

---------------------------------------------------------------------------
\* The render loop (lines 223-366), one step per block of its body.  I names
\* the input the platform may report in a frame.

\* Every kind of input: each key, scroll in both directions, a drag without
\* and with movement (pixels), an edit of any of the six sliders.
FrameInputs ==
    [exit |-> BOOLEAN, registering |-> BOOLEAN, esc |-> BOOLEAN,
     f1 |-> BOOLEAN, f2 |-> BOOLEAN, scroll |-> {-1, 0, 1},
     left_down |-> BOOLEAN, dm |-> {<<0, 0>>, <<100, -2000>>},
     sliders |-> Sliders]

\* The scene generator followed closely: F2 and the exit event only.
SceneInputs ==
    [exit |-> BOOLEAN, registering |-> BOOLEAN, esc |-> {FALSE},
     f1 |-> {FALSE}, f2 |-> BOOLEAN, scroll |-> {0},
     left_down |-> {FALSE}, dm |-> {<<0, 0>>}, sliders |-> {}]

\* The camera followed closely: drags of every size and sign, and scroll.
CameraInputs ==
    [exit |-> BOOLEAN, registering |-> BOOLEAN, esc |-> {FALSE},
     f1 |-> {FALSE}, f2 |-> {FALSE}, scroll |-> {-1, 0, 1},
     left_down |-> BOOLEAN,
     dm |-> {<<0, 0>>, <<100, 0>>, <<-100, 0>>, <<0, 100>>, <<0, -100>>,
             <<0, 255>>, <<0, 2000>>, <<0, -2000>>, <<3, -786>>},
     sliders |-> {}]

\* The hot reload followed closely: the file is rewritten while frames run,
\* with one input of each kind that resets the rendering (F2, scroll, a drag,
\* a slider edit).
ReloadInputs ==
    [exit |-> BOOLEAN, registering |-> {FALSE}, esc |-> {FALSE},
     f1 |-> {FALSE}, f2 |-> BOOLEAN, scroll |-> {0, 1},
     left_down |-> BOOLEAN, dm |-> {<<0, 0>>},
     sliders |-> {"metal_roughness"}]

\* The step written back as config.step = config.step++ would leave it.
TickPostIncrement(step) == step

\* config.step += 1
Tick(step) == step + 1

\* while(is_running), with the loop body's first statement config.step += 1.
BeginFrame(max_frames) ==
    /\ pc = "loop"
    /\ is_running
    /\ frames < max_frames
    /\ config' = [config EXCEPT !.step = Tick(@)]
    /\ frames' = frames + 1
    /\ phases' = <<"tick">>
    /\ resets' = {}
    /\ compiled' = FALSE
    /\ pc' = "events"
    /\ UNCHANGED <<sizeVars, randomVars, inputVars, cameraVars, sceneVars, render_texture, is_running,
                   show_ui, kernelVars, stored_file_time, current_file_time,
                   fileVars, genVars, dispatch_grid>>

\* The loop condition fails: ui::release, graphics::release, return 0.
ExitLoop ==
    /\ pc = "loop"
    /\ ~is_running
    /\ pc' = "done"
    /\ UNCHANGED <<sizeVars, randomVars, inputVars, cameraVars, config, sceneVars, render_texture,
                   is_running, show_ui, kernelVars, stored_file_time,
                   current_file_time, fileVars, genVars, dispatch_grid,
                   frames, phases, resets, compiled>>

\* The event loop: an EXIT event clears is_running.
PollEvents(I) ==
    /\ pc = "events"
    /\ \E exit \in I.exit : is_running' = (is_running /\ ~exit)
    /\ phases' = Append(phases, "events")
    /\ pc' = "keys"
    /\ UNCHANGED <<sizeVars, randomVars, inputVars, cameraVars, config, sceneVars, render_texture,
                   show_ui, kernelVars, stored_file_time, current_file_time,
                   fileVars, genVars, dispatch_grid, frames, resets, compiled>>

\* The input handling runs whatever the UI layer reports.
ReactsToInputAlways(registering) == TRUE

\* if (!ui::is_registering_input())
ReactsToInput(registering) == ~registering

\* The if on ui::is_registering_input() and the key presses: ESC, F1, and
\* F2, which calls reset_rendering and then reset_spheres.
ReactKeys(I) ==
    /\ pc = "keys"
    /\ phases' = Append(phases, "input")
    /\ \E registering \in I.registering, esc \in I.esc, f1 \in I.f1,
          f2 \in I.f2 :
         /\ is_registering_input' = registering
         /\ IF ~ReactsToInput(registering)
            THEN /\ pc' = "camera"
                 /\ UNCHANGED <<is_running, show_ui, config, render_texture,
                                resets, gen_i, gen_ret>>
            ELSE /\ is_running' = (is_running /\ ~esc)
                 /\ show_ui' = IF f1 THEN ~show_ui ELSE show_ui
                 /\ IF f2
                    THEN /\ render_texture' = ClearedTexture
                         /\ config' = ResetStep(config)
                         /\ resets' = resets \cup {"F2"}
                         /\ gen_i' = FirstOf(LoopRange)
                         /\ gen_ret' = "mouse"
                         /\ pc' = "gen_for"
                    ELSE /\ pc' = "mouse"
                         /\ UNCHANGED <<config, render_texture, resets, gen_i,
                                        gen_ret>>
    /\ UNCHANGED <<sizeVars, randomVars, cameraVars, sceneVars, kernelVars,
                   stored_file_time, current_file_time, fileVars, sphere_size,
                   attempts, dispatch_grid, frames, compiled>>

\* The polar angle after a drag of dy pixels.
DragPolar(p, dy) == Clamp(p - dy * MOUSE_SPEED, POLAR_MIN, PI)

\* The scroll block without its call of reset_rendering.
MouseResetsDragOnly(scroll_delta, left_down) ==
    IF left_down THEN {"drag"} ELSE {}

\* The calls of reset_rendering in the scroll block and in the drag block.
MouseResets(scroll_delta, left_down) ==
    (IF Abs(scroll_delta) > 0 THEN {"scroll"} ELSE {})
      \cup (IF left_down THEN {"drag"} ELSE {})

\* Mouse wheel scrolling and mouse movement, inside the same if.
ReactMouse(I) ==
    /\ pc = "mouse"
    /\ \E scroll_delta \in I.scroll, left_down \in I.left_down, dm \in I.dm :
         LET calls == MouseResets(scroll_delta, left_down)
         IN  /\ radius' = IF Abs(scroll_delta) > 0
                          THEN radius - scroll_delta ELSE radius
             /\ azimuth' = IF left_down THEN azimuth - dm[1] * MOUSE_SPEED
                           ELSE azimuth
             /\ polar' = IF left_down THEN DragPolar(polar, dm[2]) ELSE polar
             /\ IF calls # {}
                THEN /\ render_texture' = ClearedTexture
                     /\ config' = ResetStep(config)
                ELSE UNCHANGED <<render_texture, config>>
             /\ resets' = resets \cup calls
    /\ pc' = "camera"
    /\ UNCHANGED <<sizeVars, randomVars, inputVars, sceneVars, is_running, show_ui, kernelVars,
                   stored_file_time, current_file_time, fileVars, genVars,
                   dispatch_grid, frames, phases, compiled>>

\* The loop left with a break as soon as is_running is cleared.
UpdateCameraBreak ==
    /\ pc = "camera"
    /\ config' = [config EXCEPT !.camera_pos = CameraPos(azimuth, polar, radius)]
    /\ phases' = Append(phases, "camera")
    /\ is_registering_input' = FALSE
    /\ pc' = IF is_running THEN "reload" ELSE "done"
    /\ UNCHANGED <<sizeVars, randomVars, cameraVars, sceneVars, render_texture,
                   is_running, show_ui, kernelVars, stored_file_time,
                   current_file_time, fileVars, genVars, dispatch_grid, frames,
                   resets, compiled>>

\* Update camera position.  The block of the input handling is left: what
\* its if read is dead from here on.
UpdateCamera ==
    /\ pc = "camera"
    /\ config' = [config EXCEPT !.camera_pos = CameraPos(azimuth, polar, radius)]
    /\ phases' = Append(phases, "camera")
    /\ is_registering_input' = FALSE
    /\ pc' = "reload"
    /\ UNCHANGED <<sizeVars, randomVars, cameraVars, sceneVars, render_texture, is_running,
                   show_ui, kernelVars, stored_file_time, current_file_time,
                   fileVars, genVars, dispatch_grid, frames, resets, compiled>>

\* Shader hot reloading, first half: read the file's write time and compare
\* it with the stored one.
ReloadCheck ==
    /\ pc = "reload"
    /\ current_file_time' = file_time
    /\ phases' = Append(phases, "reload")
    /\ pc' = IF file_time # stored_file_time THEN "compile" ELSE "dispatch"
    /\ UNCHANGED <<sizeVars, randomVars, inputVars, cameraVars, config, sceneVars, render_texture,
                   is_running, show_ui, kernelVars, stored_file_time, fileVars,
                   genVars, dispatch_grid, frames, resets, compiled>>

\* The swap without the call of reset_rendering.
SwapShaderNoReset(old_shader, new_shader, freed) ==
    IF new_shader # 0
    THEN [active |-> new_shader, released |-> freed \cup {old_shader},
          reset |-> FALSE]
    ELSE [active |-> old_shader, released |-> freed, reset |-> FALSE]

\* The swap without the test of reload_success.
SwapShaderUnchecked(old_shader, new_shader, freed) ==
    [active |-> new_shader, released |-> freed \cup {old_shader}, reset |-> TRUE]

\* The old shader released before the new one is known to be ready.
SwapShaderReleaseFirst(old_shader, new_shader, freed) ==
    IF new_shader # 0
    THEN [active |-> new_shader, released |-> freed \cup {old_shader},
          reset |-> TRUE]
    ELSE [active |-> old_shader, released |-> freed \cup {old_shader},
          reset |-> FALSE]

\* bool reload_success = graphics::is_ready(&new_ray_trace_shader) and the if
\* on it: the active shader, the released handles, and whether
\* reset_rendering is called.  A shader that is not ready has handle 0.
SwapShader(old_shader, new_shader, freed) ==
    IF new_shader # 0
    THEN [active |-> new_shader, released |-> freed \cup {old_shader},
          reset |-> TRUE]
    ELSE [active |-> old_shader, released |-> freed, reset |-> FALSE]

\* The write time remembered inside the if, on success only.
StoreFileTimeOnSuccess(stored, current, reload_success) ==
    IF reload_success THEN current ELSE stored

\* stored_file_time = current_file_time, after the if.
StoreFileTime(stored, current, reload_success) == current

\* Shader hot reloading, second half: read and compile the file as it is
\* now; if the new shader is ready, release the old one, adopt the new one
\* and reset the rendering; in both cases remember the write time.
ReloadCompile ==
    /\ pc = "compile"
    /\ compiled' = TRUE
    /\ LET new_ray_trace_shader == IF file_valid THEN shaders_created + 1 ELSE 0
           swap == SwapShader(ray_trace_shader, new_ray_trace_shader, released)
       IN  /\ last_compile' = [source_time |-> file_time, ready |-> file_valid]
           /\ shaders_created' = IF file_valid THEN shaders_created + 1
                                 ELSE shaders_created
           /\ ray_trace_shader' = swap.active
           /\ released' = swap.released
           /\ IF swap.reset
              THEN /\ render_texture' = ClearedTexture
                   /\ config' = ResetStep(config)
                   /\ resets' = resets \cup {"reload"}
              ELSE UNCHANGED <<render_texture, config, resets>>
           /\ stored_file_time' =
                StoreFileTime(stored_file_time, current_file_time,
                              new_ray_trace_shader # 0)
    /\ pc' = "dispatch"
    /\ UNCHANGED <<sizeVars, randomVars, inputVars, cameraVars, sceneVars, is_running, show_ui,
                   current_file_time, fileVars, genVars, dispatch_grid, frames,
                   phases>>

\* What the compute pass reads besides the texture and step: the scene in
\* the constant buffer, the eye position and the six shading parameters in
\* Config, and the kernel.
DispatchInputs ==
    [scene |-> [buffer |-> spheres_buffer, spheres |-> spheres],
     camera_pos |-> config.camera_pos,
     parameters |-> [s \in Sliders |-> config[s]],
     kernel |-> ray_trace_shader]

\* Ray tracing: bind the kernel and the buffers and run the compute pass,
\* which adds one sample per covered pixel to render_texture.
Dispatch ==
    /\ pc = "dispatch"
    /\ dispatch_grid' = DispatchGrid(render_target_width, render_target_height,
                                     group_size_x, group_size_y)
    /\ render_texture' = [render_texture EXCEPT
                            !.samples = @ + 1,
                            !.inputs = @ \cup {DispatchInputs}]
    /\ phases' = Append(phases, "dispatch")
    /\ pc' = "present"
    /\ UNCHANGED <<sizeVars, randomVars, inputVars, cameraVars, config, sceneVars, is_running,
                   show_ui, kernelVars, stored_file_time, current_file_time,
                   fileVars, genVars, frames, resets, compiled>>

\* The step incremented again after the dispatch, before presenting.
PresentTick ==
    /\ pc = "present"
    /\ config' = [config EXCEPT !.step = @ + 1]
    /\ phases' = phases \o <<"tick", "present">>
    /\ pc' = "ui"
    /\ UNCHANGED <<sizeVars, randomVars, inputVars, cameraVars, sceneVars, render_texture, is_running,
                   show_ui, kernelVars, stored_file_time, current_file_time,
                   fileVars, genVars, dispatch_grid, frames, resets, compiled>>

\* Draw texture with ray-traced image.
Present ==
    /\ pc = "present"
    /\ phases' = Append(phases, "present")
    /\ pc' = "ui"
    /\ UNCHANGED <<sizeVars, randomVars, inputVars, cameraVars, config, sceneVars, render_texture,
                   is_running, show_ui, kernelVars, stored_file_time,
                   current_file_time, fileVars, genVars, dispatch_grid,
                   frames, resets, compiled>>

\* The value a moved slider writes: the user drags it to its upper end.
SliderDraws(s) == {SliderMax[s]}

\* UI rendering: with show_ui the six sliders are drawn; a slider the user
\* moves writes its Config field and makes changed true.
RenderUI(I) ==
    /\ pc = "ui"
    /\ \/ /\ UNCHANGED <<config, render_texture, resets>>
       \/ /\ show_ui
          /\ \E s \in I.sliders :
               \E v \in SliderDraws(s) :
                  /\ v # config[s]
                  /\ config' = ResetStep([config EXCEPT ![s] = v])
          /\ render_texture' = ClearedTexture
          /\ resets' = resets \cup {"slider"}
    /\ phases' = Append(phases, "ui")
    /\ pc' = "swap"
    /\ UNCHANGED <<sizeVars, randomVars, inputVars, cameraVars, sceneVars, is_running, show_ui,
                   kernelVars, stored_file_time, current_file_time, fileVars,
                   genVars, dispatch_grid, frames, compiled>>

\* The step incremented at the end of the loop body, after the resets.
SwapFramesTick ==
    /\ pc = "swap"
    /\ config' = [config EXCEPT !.step = @ + 1]
    /\ pc' = "loop"
    /\ UNCHANGED <<sizeVars, randomVars, inputVars, cameraVars, sceneVars, render_texture, is_running,
                   show_ui, kernelVars, stored_file_time, current_file_time,
                   fileVars, genVars, dispatch_grid, frames, phases, resets,
                   compiled>>

\* graphics::swap_frames(), the last statement of the loop body.
SwapFrames ==
    /\ pc = "swap"
    /\ pc' = "loop"
    /\ UNCHANGED <<sizeVars, randomVars, inputVars, cameraVars, config, sceneVars, render_texture,
                   is_running, show_ui, kernelVars, stored_file_time,
                   current_file_time, fileVars, genVars, dispatch_grid,
                   frames, phases, resets, compiled>>

\* The environment: the kernel source is rewritten, with a new write time
\* and a content that compiles or does not.  The program reads the file in
\* the reload block only (the write-time query and the compilation), so a
\* rewrite is placed right before one of these two reads: a rewrite at any
\* earlier statement is seen by the program as one before the next query.
EditShaderFile ==
    /\ pc \in {"reload", "compile"}
    /\ edits < MaxEdits
    /\ edits' = edits + 1
    /\ \E t \in FileTimes \ {file_time} : file_time' = t
    /\ file_valid' \in BOOLEAN
    /\ UNCHANGED <<pc, sizeVars, randomVars, inputVars, cameraVars, config, sceneVars, render_texture,
                   is_running, show_ui, kernelVars, stored_file_time,
                   current_file_time, genVars, dispatch_grid, frames, phases,
                   resets, compiled>>

\* The program with every kind of input; the kernel source is left alone.
Next ==
    \/ Startup
    \/ GenNextSphere(FrameDraws)
    \/ GenPlace(FrameDraws)
    \/ GenFinish
    \/ BeginFrame(MaxFrames)
    \/ ExitLoop
    \/ PollEvents(FrameInputs)
    \/ ReactKeys(FrameInputs)
    \/ ReactMouse(FrameInputs)
    \/ UpdateCamera
    \/ ReloadCheck
    \/ ReloadCompile
    \/ Dispatch
    \/ Present
    \/ RenderUI(FrameInputs)
    \/ SwapFrames

Spec == Init /\ [][Next]_vars

\* The program with the scene generator's full set of draws.
SceneNext ==
    \/ Startup
    \/ GenNextSphere(SceneDraws)
    \/ GenPlace(SceneDraws)
    \/ GenFinish
    \/ BeginFrame(MaxFrames)
    \/ ExitLoop
    \/ PollEvents(SceneInputs)
    \/ ReactKeys(SceneInputs)
    \/ ReactMouse(SceneInputs)
    \/ UpdateCamera
    \/ ReloadCheck
    \/ ReloadCompile
    \/ Dispatch
    \/ Present
    \/ RenderUI(SceneInputs)
    \/ SwapFrames

SceneSpec == Init /\ [][SceneNext]_vars

\* The program with the camera's full set of mouse input.
CameraNext ==
    \/ Startup
    \/ GenNextSphere(FrameDraws)
    \/ GenPlace(FrameDraws)
    \/ GenFinish
    \/ BeginFrame(LongFrames)
    \/ ExitLoop
    \/ PollEvents(CameraInputs)
    \/ ReactKeys(CameraInputs)
    \/ ReactMouse(CameraInputs)
    \/ UpdateCamera
    \/ ReloadCheck
    \/ ReloadCompile
    \/ Dispatch
    \/ Present
    \/ RenderUI(CameraInputs)
    \/ SwapFrames

CameraSpec == Init /\ [][CameraNext]_vars

\* The program with the kernel source rewritten while it runs.
ReloadNext ==
    \/ Startup
    \/ GenNextSphere(FrameDraws)
    \/ GenPlace(FrameDraws)
    \/ GenFinish
    \/ BeginFrame(LongFrames)
    \/ ExitLoop
    \/ PollEvents(ReloadInputs)
    \/ ReactKeys(ReloadInputs)
    \/ ReactMouse(ReloadInputs)
    \/ UpdateCamera
    \/ ReloadCheck
    \/ ReloadCompile
    \/ Dispatch
    \/ Present
    \/ RenderUI(ReloadInputs)
    \/ SwapFrames
    \/ EditShaderFile

ReloadSpec == Init /\ [][ReloadNext]_vars

\* The dispatch alone, from a frame about to dispatch, for every size of the
\* render target and of the tile up to the bounds.
GridInit ==
    /\ pc = "dispatch"
    /\ render_target_width \in 1..MaxTarget
    /\ render_target_height \in 1..MaxTarget
    /\ group_size_x \in 1..MaxTile
    /\ group_size_y \in 1..MaxTile
    /\ ray_trace_shader = 1
    /\ shaders_created = 1
    /\ released = {}
    /\ last_compile = [source_time |-> 1, ready |-> TRUE]
    /\ file_time = 1
    /\ file_valid = TRUE
    /\ edits = 0
    /\ Locals

GridNext == Dispatch

GridSpec == GridInit /\ [][GridNext]_vars

---------------------------------------------------------------------------
\* Properties.

NonGround == 1..(SPHERES_COUNT - 1)

PlanarDistanceSq(a, b) == (a.x - b.x) * (a.x - b.x) + (a.z - b.z) * (a.z - b.z)

RadiiSumSq(a, b) == (a.w + b.w) * (a.w + b.w)

InGeneration == pc \in {"gen_for", "gen_do"}

\* reset_spheres has run to its end at least once and is not running.
SceneGenerated == pc \notin {"start", "aborted", "gen_for", "gen_do"}

\* The loop body has run to its end: the state a frame leaves behind.
FrameEnd == pc = "loop" /\ frames > 0

\* C1: after the first generation and after every regeneration, any two
\* spheres other than the ground are at a planar (x, z) distance of at least
\* the sum of their radii.
C1_NoOverlap ==
    SceneGenerated =>
      \A i, j \in NonGround :
         i # j =>
           PlanarDistanceSq(spheres.positions[i], spheres.positions[j])
             >= RadiiSumSq(spheres.positions[i], spheres.positions[j])

\* An F2 regeneration of the second frame has just returned, and two of its
\* spheres touch exactly.
C1_Witness ==
    /\ pc = "mouse"
    /\ frames = 2
    /\ "F2" \in resets
    /\ \E i, j \in NonGround :
         /\ i # j
         /\ PlanarDistanceSq(spheres.positions[i], spheres.positions[j])
              = RadiiSumSq(spheres.positions[i], spheres.positions[j])

\* C2: in a frame, every step that regenerates the scene, changes the camera
\* radius, azimuth or polar angle, changes one of the six slider fields or
\* swaps the kernel leaves reset_rendering called in that frame, with step 1
\* and the texture cleared.
C2_ChangeResets ==
    [][(/\ frames' > 0
        /\ \/ InGeneration
           \/ InGeneration'
           \/ radius' # radius
           \/ azimuth' # azimuth
           \/ polar' # polar
           \/ \E s \in Sliders : config'[s] # config[s]
           \/ ray_trace_shader' # ray_trace_shader)
       => (/\ resets' # {}
           /\ config'.step = 1
           /\ render_texture' = ClearedTexture)]_vars

\* A frame in which all five sources of a reset occurred.
C2_Witness ==
    /\ FrameEnd
    /\ resets = {"F2", "scroll", "drag", "reload", "slider"}

\* C3: a frame in which reset_rendering was called ends with step 1.
C3_ResetFrameEndsAtOne ==
    (FrameEnd /\ resets # {}) => config.step = 1

\* The second frame ended after a reset: its increment had made step 2
\* or more unless the first frame ended with a slider edit.
C3_Witness ==
    /\ FrameEnd
    /\ frames = 2
    /\ resets = {"scroll"}
    /\ phases[1] = "tick"
    /\ config.step = 1

\* Position of the first occurrence of a block in the frame (0: none).
PhaseIndex(name) ==
    IF \E k \in 1..Len(phases) : phases[k] = name
    THEN CHOOSE k \in 1..Len(phases) :
           /\ phases[k] = name
           /\ \A l \in 1..(k - 1) : phases[l] # name
    ELSE 0

PhaseCount(name) == Cardinality({k \in 1..Len(phases) : phases[k] = name})

\* C4, as stated: in every frame the step is incremented once, after the
\* frame's input handling, reload check and dispatch and before presenting.
C4_TickAfterDispatch ==
    FrameEnd =>
      /\ PhaseCount("tick") = 1
      /\ PhaseIndex("input") < PhaseIndex("tick")
      /\ PhaseIndex("reload") < PhaseIndex("tick")
      /\ PhaseIndex("dispatch") < PhaseIndex("tick")
      /\ PhaseIndex("tick") < PhaseIndex("present")

\* C4, amended: in every frame the step is incremented once, as the first
\* statement of the frame, before the input handling, the camera update, the
\* reload check, the dispatch and the presentation, which follow in this order.
C4_TickFirst ==
    FrameEnd =>
      phases = <<"tick", "events", "input", "camera", "reload", "dispatch",
                 "present", "ui">>

\* A frame with input-driven resets and a kernel reload has ended.
C4_Witness ==
    /\ FrameEnd
    /\ {"scroll", "drag", "reload"} \subseteq resets

\* The step of ReloadCompile: the only step from "compile" that moves on.
CompileStep == pc = "compile" /\ pc' = "dispatch"

\* C5: a reload check whose compilation fails leaves the active kernel, the
\* released handles, step, the texture and the frame's resets as they were,
\* and goes on to the dispatch.
C5_FailedReloadKeepsKernel ==
    [][(CompileStep /\ ~file_valid)
       => (/\ ray_trace_shader' = ray_trace_shader
           /\ released' = released
           /\ config' = config
           /\ render_texture' = render_texture
           /\ resets' = resets)]_vars

\* A frame after the first is about to dispatch after a compilation that
\* failed: step and the samples of the earlier frames are still there.
C5_Witness ==
    /\ pc = "dispatch"
    /\ compiled
    /\ ~last_compile.ready
    /\ "reload" \notin resets
    /\ config.step = 2
    /\ render_texture.samples = 1

\* C6: a compilation, failed or not, stores the write time the check read; a
\* check that reads the stored write time compiles nothing and leaves the
\* kernel alone, and a check compiles only when it reads another write time.
C6_OneAttemptPerTimestamp ==
    [][/\ CompileStep => stored_file_time' = current_file_time
       /\ (pc = "reload" /\ pc' # "reload" /\ current_file_time' = stored_file_time)
            => (pc' = "dispatch" /\ UNCHANGED <<kernelVars, compiled>>)
       /\ (pc = "reload" /\ pc' = "compile")
            => current_file_time' # stored_file_time]_vars

\* The latest compilation read the source as it is now and failed, and this
\* frame's check has compiled nothing.
C6_Witness ==
    /\ pc = "dispatch"
    /\ frames >= 2
    /\ ~compiled
    /\ ~last_compile.ready
    /\ last_compile.source_time = file_time
    /\ stored_file_time = file_time

\* C7: at every dispatch the active kernel is the newest kernel that
\* compiled, is ready and has not been released.
C7_DispatchKernel ==
    pc = "dispatch" =>
      /\ ray_trace_shader = shaders_created
      /\ ray_trace_shader # 0
      /\ ray_trace_shader \notin released

\* About to dispatch after a failed compilation that followed a successful
\* reload: the reloaded kernel is active and its predecessor released.
C7_Witness ==
    /\ pc = "dispatch"
    /\ compiled
    /\ ~last_compile.ready
    /\ shaders_created = 2
    /\ released = {1}

\* C8: the placement loop makes at most MaxAttempts failed passes for one
\* sphere.
C8_BoundedAttempts == attempts <= MaxAttempts

\* C9: polar is strictly inside (0.02, pi).
C9_PolarInOpenInterval == POLAR_MIN < polar /\ polar < PI

Ceil(a, b) == (a + b - 1) \div b

C11_CapturedInputIgnored ==
    [][(pc = "keys" /\ is_registering_input')
       => (/\ pc' = "camera"
           /\ UNCHANGED <<cameraVars, sceneVars, show_ui, is_running, config,
                          render_texture, resets>>)]_vars

\* The UI captured the input of the second frame: the frame goes on without
\* a reset, on top of the sample of the first.
C11_Witness ==
    /\ pc = "camera"
    /\ is_registering_input
    /\ frames = 2
    /\ resets = {}
    /\ config.step = 2
    /\ render_texture.samples = 1
    /\ is_running
    /\ show_ui

\* A call of reset_rendering has just returned and no dispatch followed it.
AfterReset ==
    \/ InGeneration /\ gen_ret = "mouse"
    \/ pc \in {"mouse", "camera", "reload", "compile", "dispatch"} /\ resets # {}
    \/ pc \in {"swap", "loop"} /\ "slider" \in resets

\* C12: reset_rendering, applied to the Config of any reachable state, gives
\* step 1 and leaves every other field as it is; the texture it leaves is
\* zero with no sample; and right after each of its calls the program is in
\* that state.
C12_ResetRendering ==
    /\ DOMAIN ResetStep(config) = DOMAIN config
    /\ ResetStep(config).step = 1
    /\ \A f \in DOMAIN config \ {"step"} : ResetStep(config)[f] = config[f]
    /\ ClearedTexture = [base |-> "zero", samples |-> 0, inputs |-> {}]
    /\ AfterReset => (config.step = 1 /\ render_texture = ClearedTexture)

\* A slider was moved in the third frame, after the dispatch: the samples
\* in the texture are gone and step is 1.
C12_Witness ==
    /\ pc = "swap"
    /\ frames = 3
    /\ resets = {"slider"}
    /\ config.step = 1
    /\ render_texture = ClearedTexture
    /\ config.metal_roughness = SliderMax.metal_roughness

\* C13: the start of a frame adds exactly 1 to step, and within a frame step
\* changes only where reset_rendering is called; so over N frames without a
\* reset step grows by N.
C13_StepPlusOnePerFrame ==
    [][/\ (frames' # frames) => config'.step = config.step + 1
       /\ (frames' = frames /\ resets' = resets)
            => config'.step = config.step]_vars

\* Three frames without a reset have ended: step went from 0 to 3.
C13_Witness ==
    /\ FrameEnd
    /\ frames = 3
    /\ resets = {}
    /\ config.step = 3
    /\ render_texture.samples = 3

\* C14: a call of reset_spheres with a given sequence of draws ends with the
\* same scene, after the same number of draws, whatever the buffer held
\* before the call.
C14_SameDrawsSameScene ==
    (pc = "gen_for" /\ gen_i = FirstOf(LoopRange))
      => \A q \in PriorScenes :
            LET own == reset_spheres(spheres, tape)
                other == reset_spheres(q, tape)
            IN  /\ own.done = other.done
                /\ own.done => (own.scene = other.scene /\ own.rest = other.rest)

\* A call has returned that rejected at least one position: it used more
\* than the ten draws that two spheres placed at the first attempt take at
\* most.
C14_Witness ==
    /\ pc = "loop"
    /\ frames = 0
    /\ spheres_buffer = "current"
    /\ Len(tape) < MaxTape - 10
    /\ spheres.positions[1] # SunPosition

\* C15: slot 0 always holds the ground sphere as main() wrote it, and once
\* reset_spheres has returned every other slot, slot 1 included, holds a
\* sphere it generated: radius 0.5 to 1.0, resting on the ground (y equal to
\* the radius), with a material of index_to_mat.
C15_GroundFixed ==
    /\ spheres.positions[0] = Vector4(0, -2000, 0, 2000)
    /\ spheres.materials[0] = MaterialOf([r |-> 15, g |-> 15, b |-> 15], "LAMBERT")
    /\ SceneGenerated =>
         \A i \in 1..(SPHERES_COUNT - 1) :
            /\ spheres.positions[i].w \in 1..2
            /\ spheres.positions[i].y = spheres.positions[i].w
            /\ spheres.positions[i] # SunPosition
            /\ \E k \in 1..Len(index_to_mat) :
                  spheres.materials[i].mat = index_to_mat[k]

\* The second frame regenerated the scene and went on: the ground is in slot
\* 0 and slot 1 holds a sphere of the smallest size.
C15_Witness ==
    /\ pc = "mouse"
    /\ frames = 2
    /\ "F2" \in resets
    /\ spheres.positions[0] = GroundPosition
    /\ spheres.positions[1].w = 1
    /\ spheres_buffer = "current"

\* The blocks of a loop body that ran from its first statement to its last.
WholeFrame ==
    <<"tick", "events", "input", "camera", "reload", "dispatch", "present",
      "ui">>

\* C16: is_running is cleared only by the event loop (an EXIT event) or by
\* the key handling (ESC); once it is cleared no further frame starts; and
\* main returns only from the loop condition, after a frame that ran all its
\* blocks, reload check, dispatch and presentation included.
C16_StopsOnlyOnQuit ==
    [][/\ (is_running' # is_running)
            => (is_running /\ pc \in {"events", "keys"})
       /\ ~is_running => frames' = frames
       /\ (pc' = "done" /\ pc # "done")
            => (~is_running /\ pc = "loop" /\ phases = WholeFrame)]_vars

\* main has returned 0 after a second frame that saw the quit and still
\* dispatched on top of the first frame's sample.
C16_Witness ==
    /\ pc = "done"
    /\ ~is_running
    /\ frames = 2
    /\ phases = WholeFrame
    /\ resets = {}
    /\ render_texture.samples = 2

\* C17: at every dispatch step is the number of samples in the texture since
\* it was last cleared, the sample of this dispatch included.
C17_StepCountsSamples ==
    pc = "dispatch" => config.step = render_texture.samples + 1

\* C18: all the passes that added a sample to the texture since it was last
\* cleared read the same scene, eye position, shading parameters and kernel;
\* and a pass that adds to samples already there reads what they read.
C18_OneInputPerAccumulation ==
    /\ Cardinality(render_texture.inputs) <= 1
    /\ (pc = "dispatch" /\ render_texture.samples > 0)
         => render_texture.inputs = {DispatchInputs}

\* A kernel reload in the second frame cleared the first frame's sample, and
\* the third frame has added a second sample under the new kernel.
C18_Witness ==
    /\ pc = "present"
    /\ frames = 3
    /\ ray_trace_shader = 2
    /\ render_texture.samples = 2
    /\ render_texture.inputs = {DispatchInputs}

\* C19: when the input handling of a frame has called reset_rendering, the
\* scene was regenerated or the camera is not where the frame before left
\* it (config.camera_pos still holds that position here).
C19_ResetOnlyOnChange ==
    (pc = "camera" /\ frames >= 2 /\ resets # {})
      => \/ "F2" \in resets
         \/ CameraPos(azimuth, polar, radius) # config.camera_pos

\* C20: when the first frame is about to dispatch and the kernel source was
\* not rewritten since the start-up compilation, the frame's reload check has
\* compiled nothing, the start-up kernel is active, the check has not reset
\* the rendering, and the stored write time is that of the source the
\* start-up compilation read.
C20_StoredTimeFromStartup ==
    (pc = "dispatch" /\ frames = 1 /\ edits = 0)
      => (/\ ~compiled
          /\ ray_trace_shader = 1
          /\ "reload" \notin resets
          /\ stored_file_time = last_compile.source_time)

====
